---- MODULE Spec2Model ----
(***************************************************************************)
(* Model of unpack_repo.py: main() runs unpack_repo() over the zip files   *)
(* given on the command line, flattening every accepted entry into         *)
(* dstbase/<first path segment>/<getkey(rest)> and inserting one SourceMap *)
(* row per accepted entry.                                                  *)
(*                                                                          *)
(* Strings that the code takes apart (entry names, zip paths, patterns)    *)
(* are sequences of one-character strings.  Regular expressions are        *)
(* literal patterns, pat.search(src) is substring search.                  *)
(***************************************************************************)
EXTENDS Integers, Sequences, FiniteSets, TLC

VARIABLES pc, args, pats, extract, maxfiles, maxsize, optM, optR, repo,
          cur, idx, dstdir, extracted, rows, durable, commits,
          files, dirs, log

vars == <<pc, args, pats, extract, maxfiles, maxsize, optM, optR, repo,
          cur, idx, dstdir, extracted, rows, durable, commits,
          files, dirs, log>>

(* ------------------------------ bounds -------------------------------- *)

\* longest command-line list of zip files
MaxArgs == 2

\* largest small value given to -f (besides the default)
MaxFilesOpt == 2

(* ------------------------- program constants -------------------------- *)

\* fp.read(2**16)
CHUNK == 65536

\* maxfiles = 10000
DefaultMaxFiles == 10000

\* maxsize = 1024*1024
DefaultMaxSize == 1048576

\* dstdir = None
NoneDir == <<"<None>">>

(* --------------------------- string helpers --------------------------- *)

Min(a, b) == IF a <= b THEN a ELSE b

\* sub in s
Contains(s, sub) ==
    \E i \in 0..(Len(s) - Len(sub)) :
        \A j \in 1..Len(sub) : s[i + j] = sub[j]

\* s.endswith(c)
EndsWith(s, c) == Len(s) > 0 /\ s[Len(s)] = c

\* position of the first c in s, 0 when there is none
FirstIndex(s, c) ==
    IF \E i \in 1..Len(s) : s[i] = c
    THEN CHOOSE i \in 1..Len(s) : s[i] = c /\ \A j \in 1..(i - 1) : s[j] # c
    ELSE 0

\* position of the last c in s, 0 when there is none
LastIndex(s, c) ==
    IF \E i \in 1..Len(s) : s[i] = c
    THEN CHOOSE i \in 1..Len(s) : s[i] = c /\ \A j \in (i + 1)..Len(s) : s[j] # c
    ELSE 0

\* s.partition('/') : <<head, tail>>
Partition(s) ==
    LET i == FirstIndex(s, "/") IN
    IF i = 0 THEN <<s, <<>>>>
    ELSE <<SubSeq(s, 1, i - 1), SubSeq(s, i + 1, Len(s))>>

\* os.path.basename(path)
Basename(path) == SubSeq(path, LastIndex(path, "/") + 1, Len(path))

\* os.path.splitext(name)[0] for a name without directory part: the
\* extension starts at the last dot that follows a non-dot character
Stem(name) ==
    LET d == LastIndex(name, ".") IN
    IF d > 1 /\ \E k \in 1..(d - 1) : name[k] # "." THEN SubSeq(name, 1, d - 1)
    ELSE name

\* os.path.join(a, b)
Join(a, b) ==
    IF Len(b) > 0 /\ b[1] = "/" THEN b
    ELSE IF Len(a) = 0 \/ EndsWith(a, "/") THEN a \o b
    ELSE a \o <<"/">> \o b

(* ------------------------------ getkey -------------------------------- *)

Alphabet == <<"a", "b", "c", "d", "g", "h", "i", "j", "p", "q", "r", "s",
              "t", "z", "1", "2", "3", "4", ".", "/", "-">>

Codes == <<97, 98, 99, 100, 103, 104, 105, 106, 112, 113, 114, 115,
           116, 122, 49, 50, 51, 52, 46, 47, 45>>

\* ord(c)
Ord(c) == Codes[CHOOSE i \in 1..Len(Alphabet) : Alphabet[i] = c]

HexDigits == <<"0", "1", "2", "3", "4", "5", "6", "7",
               "8", "9", "a", "b", "c", "d", "e", "f">>

\* '%04x' % n for n < 16^4
Hex4(n) == << HexDigits[((n \div 4096) % 16) + 1], HexDigits[((n \div 256) % 16) + 1],
              HexDigits[((n \div 16) % 16) + 1], HexDigits[(n % 16) + 1] >>

RECURSIVE Digest(_, _)
\* hashlib.md5(path.encode('utf-8')): a 16-bit polynomial digest stands in
\* for the 128-bit one
Digest(path, h) ==
    IF path = <<>> THEN h
    ELSE Digest(Tail(path), (h * 131 + Ord(Head(path))) % 65536)

\* INVALID = re.compile(r'[^.a-zA-Z0-9]')
INVALID(c) == c \in {"/", "-"}

RECURSIVE Sanitize(_)
\* INVALID.sub(lambda m:'_%04x' % ord(m.group(0)), name)
Sanitize(name) ==
    IF name = <<>> THEN <<>>
    ELSE (IF INVALID(Head(name)) THEN <<"_">> \o Hex4(Ord(Head(name)))
          ELSE <<Head(name)>>) \o Sanitize(Tail(name))

getkey(path) == Hex4(Digest(path, 7)) \o <<"_">> \o Sanitize(Basename(path))

(* ----------------------- the files on the disk ------------------------ *)

ZipC1 == <<"c", "1", ".", "z", "i", "p">>
ZipC2 == <<"d", "/", "c", "2", ".", "z", "i", "p">>
ZipC3 == <<"c", "3", ".", "z", "i", "p">>
ZipC4 == <<"c", "4", ".", "z", "i", "p">>

ZipPaths == {ZipC1, ZipC2, ZipC3, ZipC4}

\* One member of a zip file.  filename and file_size are the ZipInfo fields;
\* stream is the number of bytes the member's stream yields; exc is the
\* exception its extraction raises ("none" when it raises nothing) and
\* failchunk the chunk at which it is raised: 0 is before the output file is
\* opened, k >= 1 is after k-1 chunks were written.
Member(filename, file_size, stream, exc, failchunk) ==
    [filename |-> filename, file_size |-> file_size, stream |-> stream,
     exc |-> exc, failchunk |-> failchunk]

InfoC1 ==
    << Member(<<"p", "/">>, 0, 0, "none", 0),
       Member(<<"p", "/", "a", ".", "t">>, 40, 40, "none", 0),
       Member(<<"p", "/", ".", "g", "/", "c", ".", "t">>, 20, 20, "none", 0),
       Member(<<"p", "/", "b", ".", "t">>, 70000, 70000, "IOError", 2),
       Member(<<"p", "/", "s", "/", "a", ".", "t">>, 40, 70000, "none", 0),
       Member(<<".", "h", "/", "a", ".", "t">>, 40, 40, "none", 0),
       Member(<<"p", "/", "b", ".", "j">>, 40, 40, "none", 0),
       Member(<<"p", "/", "c", ".", "t">>, 2000000, 2000000, "none", 0),
       Member(<<"p", "/", "d", ".", "t">>, 70000, 70000, "none", 0) >>

InfoC2 ==
    << Member(<<"p", "/", "a", ".", "t">>, 40, 40, "none", 0),
       Member(<<"p", "/", "a", "-", "b", ".", "t">>, 40, 40, "BadZipFile", 0),
       Member(<<"q", "/", "a", ".", "t">>, 40, 40, "zlib.error", 1),
       Member(<<"p", "/", "c", ".", "t">>, 40, 40, "none", 0) >>

InfoC4 ==
    << Member(<<"r", "/", "a", ".", "t">>, 40, 40, "none", 0) >>

\* zipfile.ZipFile(zippath): valid is FALSE when it raises BadZipFile
ZipFile(zippath) ==
    CASE zippath = ZipC1 -> [valid |-> TRUE, infolist |-> InfoC1]
      [] zippath = ZipC2 -> [valid |-> TRUE, infolist |-> InfoC2]
      [] zippath = ZipC3 -> [valid |-> FALSE, infolist |-> <<>>]
      [] zippath = ZipC4 -> [valid |-> TRUE, infolist |-> InfoC4]

\* the lines of repos.lst, split at the blanks: user reponame branch commit
RepoLines ==
    << <<"u", "x", "b1", <<"c", "1">> >>,
       <<"u", "y", "b1", <<"c", "2">> >>,
       <<"v", "z", "b2", <<"c", "3">> >>,
       <<"u", "y", "b2", <<"c", "2">> >> >>

RECURSIVE LoadRepo(_, _)
\* repo = {}; for line in fp: repo[commit] = (reponame, branch)
LoadRepo(lines, r) ==
    IF lines = <<>> THEN r
    ELSE LET line == Head(lines)
             val == << <<line[1], "/", line[2]>>, line[3] >>
         IN LoadRepo(Tail(lines),
                     [c \in (DOMAIN r) \cup {line[4]} |->
                         IF c = line[4] THEN val ELSE r[c]])

\* the values of -A and -J on the command line
PatT == <<".", "t">>
PatS == <<"/", "s", "/">>

PatsChoices ==
    { <<>>,
      << <<PatT, TRUE>> >>,
      << <<PatS, FALSE>>, <<PatT, TRUE>> >> }

RECURSIVE SeqsUpTo(_, _)
\* the sequences over S of length at most n
SeqsUpTo(S, n) ==
    IF n = 0 THEN {<<>>}
    ELSE LET shorter == SeqsUpTo(S, n - 1)
         IN shorter \cup {Append(s, x) : s \in shorter, x \in S}

\* the values of -f on the command line, and its default
MaxFilesChoices == (0..MaxFilesOpt) \cup {DefaultMaxFiles}

\* a value of -m on the command line, and its default
MaxSizeChoices == {1000, DefaultMaxSize}

(* ------------------------- unpack_repo, the tests ---------------------- *)

\* info.is_dir()
is_dir(info) == EndsWith(info.filename, "/")

\* a test of the first character only
HiddenLeadingDot(src) == Len(src) > 0 /\ src[1] = "."

\* '/.' in src
Hidden(src) == Contains(src, <<"/", ".">>)

RECURSIVE PatsOk(_, _)
\* for (pat,ok) in pats: if pat.search(src): break / else: ok = False
PatsOk(ps, src) ==
    IF ps = <<>> THEN FALSE
    ELSE IF Contains(src, Head(ps)[1]) THEN Head(ps)[2]
    ELSE PatsOk(Tail(ps), src)

\* maxsize < info.file_size
TooBig(msize, info) == msize < info.file_size

\* the entry reaches line 52
Accepted(info, ps, msize) ==
    /\ ~is_dir(info)
    /\ ~Hidden(info.filename)
    /\ PatsOk(ps, info.filename)
    /\ ~TooBig(msize, info)

\* a strict comparison
LimitExceeded(mfiles, ext) == mfiles < ext

\* maxfiles <= extracted
LimitReached(mfiles, ext) == mfiles <= ext

\* extracted += 1 placed after the try statement
ExtractedAlways(ext, exc) == ext + 1

\* extracted += 1 is the last statement of the try block
ExtractedAfter(ext, exc) == IF exc = "none" THEN ext + 1 ELSE ext

\* (commit,_) = os.path.splitext(os.path.basename(zippath))
CommitOf(zippath) == Stem(Basename(zippath))

\* dst = os.path.join(dstdir, getkey(src1))
DstOf(src) == Join(Partition(src)[1], getkey(Partition(src)[2]))

RECURSIVE CopyLoop(_, _, _)
\* while 1: data = fp.read(2**16); if not data: break; out.write(data)
\* left: bytes the stream has not yielded yet, n: chunks written so far
CopyLoop(info, left, n) ==
    IF info.exc # "none" /\ info.failchunk = n + 1
    THEN [exc |-> info.exc, opened |-> TRUE, written |-> info.stream - left]
    ELSE IF Min(CHUNK, left) = 0
    THEN [exc |-> "none", opened |-> TRUE, written |-> info.stream - left]
    ELSE CopyLoop(info, left - Min(CHUNK, left), n + 1)

\* with zfp.open(src, 'r') as fp: with open(..., 'wb') as out: ...
CopyResult(info, dirExists) ==
    IF info.exc # "none" /\ info.failchunk = 0
    THEN [exc |-> info.exc, opened |-> FALSE, written |-> 0]
    ELSE IF ~dirExists
    THEN [exc |-> "IOError", opened |-> FALSE, written |-> 0]
    ELSE CopyLoop(info, info.stream, 0)

(* ------------------------------- state --------------------------------- *)

zippath == args[cur]

zfp == ZipFile(zippath)

info == zfp.infolist[idx]

\* the state after the option loop of main
Init ==
    /\ pc = "main"
    /\ args \in SeqsUpTo(ZipPaths, MaxArgs)
    /\ pats \in PatsChoices
    /\ extract \in BOOLEAN
    /\ maxfiles \in MaxFilesChoices
    /\ maxsize \in MaxSizeChoices
    /\ optM \in BOOLEAN
    /\ optR \in BOOLEAN
    /\ repo = <<>>
    /\ cur = 1
    /\ idx = 1
    /\ dstdir = NoneDir
    /\ extracted = 0
    /\ rows = <<>>
    /\ durable = 0
    /\ commits = 0
    /\ files = <<>>
    /\ dirs = {}
    /\ log = <<>>

config == <<args, pats, extract, maxfiles, maxsize, optM, optR>>

store == <<rows, durable, commits>>

locals == <<idx, dstdir, extracted>>

(* ------------------------------- main ---------------------------------- *)

\* if not args: return usage()
MainUsage ==
    /\ pc = "main"
    /\ args = <<>>
    /\ pc' = "usage"
    /\ UNCHANGED <<config, repo, cur, locals, store, files, dirs, log>>

\* assert (srcmap is None) == (repomap is None)
MainAssert ==
    /\ pc = "main"
    /\ args # <<>>
    /\ optM # optR
    /\ pc' = "crashed"
    /\ UNCHANGED <<config, repo, cur, locals, store, files, dirs, log>>

\* the repomap is read, the loop over args starts
MainLoad ==
    /\ pc = "main"
    /\ args # <<>>
    /\ optM = optR
    /\ repo' = IF optR THEN LoadRepo(RepoLines, <<>>) ELSE <<>>
    /\ pc' = "unpack"
    /\ UNCHANGED <<config, cur, locals, store, files, dirs, log>>

\* unpack_repo returns: main goes on with the next zippath, or leaves the loop
NextZip ==
    /\ cur' = cur + 1
    /\ pc' = IF cur < Len(args) THEN "unpack" ELSE "commit"

\* no except clause: BadZipFile leaves unpack_repo and main
BadZipUncaught ==
    /\ log' = log
    /\ cur' = cur
    /\ pc' = "crashed"

\* except zipfile.BadZipFile: logging.error(...); return
BadZipHandler ==
    /\ log' = Append(log, [level |-> "error", what |-> zippath, n |-> 0])
    /\ NextZip

\* zipfile.ZipFile(zippath) raises BadZipFile
UnpackBadZip ==
    /\ pc = "unpack"
    /\ ~zfp.valid
    /\ BadZipHandler
    /\ UNCHANGED <<config, repo, locals, store, files, dirs>>

\* (reponame,branch) = repo[commit] raises KeyError, which nothing catches
UnpackKeyError ==
    /\ pc = "unpack"
    /\ zfp.valid
    /\ optR
    /\ CommitOf(zippath) \notin DOMAIN repo
    /\ pc' = "crashed"
    /\ UNCHANGED <<config, repo, cur, locals, store, files, dirs, log>>

\* dstdir = None; extracted = 0; for info in zfp.infolist():
UnpackStart ==
    /\ pc = "unpack"
    /\ zfp.valid
    /\ optR => CommitOf(zippath) \in DOMAIN repo
    /\ dstdir' = NoneDir
    /\ extracted' = 0
    /\ idx' = 1
    /\ pc' = "entry"
    /\ UNCHANGED <<config, repo, cur, store, files, dirs, log>>

\* the for loop has no more entries
EntryNone ==
    /\ pc = "entry"
    /\ idx > Len(zfp.infolist)
    /\ pc' = "return"
    /\ UNCHANGED <<config, repo, cur, locals, store, files, dirs, log>>

\* one of the four continue statements
EntrySkip ==
    /\ pc = "entry"
    /\ idx <= Len(zfp.infolist)
    /\ ~Accepted(info, pats, maxsize)
    /\ log' = IF /\ ~is_dir(info)
                 /\ ~Hidden(info.filename)
                 /\ PatsOk(pats, info.filename)
              THEN Append(log, [level |-> "info", what |-> info.filename,
                                n |-> info.file_size])
              ELSE log
    /\ idx' = idx + 1
    /\ UNCHANGED <<pc, config, repo, cur, dstdir, extracted, store, files, dirs>>

\* srcmap.execute('INSERT INTO SourceMap VALUES (NULL,?,?,?,?,?);', ...)
Insert(r, src) ==
    Append(r, [Uid |-> Len(r) + 1,
               FileName |-> DstOf(src),
               RepoName |-> repo[CommitOf(zippath)][1],
               BranchName |-> repo[CommitOf(zippath)][2],
               CommitId |-> CommitOf(zippath),
               SrcPath |-> Partition(src)[2]])

\* lines 52-65: the directory, the key, the SourceMap row
EntryAccept ==
    /\ pc = "entry"
    /\ idx <= Len(zfp.infolist)
    /\ Accepted(info, pats, maxsize)
    /\ dstdir' = Partition(info.filename)[1]
    /\ dirs' = IF dstdir # Partition(info.filename)[1] /\ extract
               THEN dirs \cup {Partition(info.filename)[1]}
               ELSE dirs
    /\ log' = Append(log, [level |-> "debug", what |-> info.filename, n |-> 0])
    /\ rows' = IF optM THEN Insert(rows, info.filename) ELSE rows
    /\ IF extract
       THEN pc' = "copy" /\ idx' = idx
       ELSE pc' = "entry" /\ idx' = idx + 1
    /\ UNCHANGED <<config, repo, cur, extracted, durable, commits, files>>

\* lines 66-79: the copy, its except clauses, the maxfiles test
Copy ==
    /\ pc = "copy"
    /\ LET res == CopyResult(info, dstdir \in dirs)
           dst == DstOf(info.filename)
       IN /\ files' = IF res.opened
                      THEN (dst :> [bytes |-> res.written,
                                    whole |-> res.exc = "none"]) @@ files
                      ELSE files
          /\ extracted' = ExtractedAfter(extracted, res.exc)
          /\ log' = IF res.exc = "none" THEN log
                    ELSE Append(log, [level |-> "error", what |-> info.filename,
                                      n |-> 0])
    /\ IF LimitReached(maxfiles, extracted')
       THEN pc' = "return" /\ idx' = idx
       ELSE pc' = "entry" /\ idx' = idx + 1
    /\ UNCHANGED <<config, repo, cur, dstdir, store, dirs>>

\* logging.info(f'extracted: ...'); return
Return ==
    /\ pc = "return"
    /\ log' = Append(log, [level |-> "info", what |-> zippath, n |-> extracted])
    /\ NextZip
    /\ UNCHANGED <<config, repo, locals, store, files, dirs>>

\* if srcmap is not None: srcmap.commit(); return 0
Commit ==
    /\ pc = "commit"
    /\ commits' = IF optM THEN commits + 1 ELSE commits
    /\ durable' = IF optM THEN Len(rows) ELSE durable
    /\ pc' = "done"
    /\ UNCHANGED <<config, repo, cur, locals, rows, files, dirs, log>>

Next ==
    \/ MainUsage
    \/ MainAssert
    \/ MainLoad
    \/ UnpackBadZip
    \/ UnpackKeyError
    \/ UnpackStart
    \/ EntryNone
    \/ EntrySkip
    \/ EntryAccept
    \/ Copy
    \/ Return
    \/ Commit

Spec == Init /\ [][Next]_vars

(* ------------------------------ properties ----------------------------- *)

\* some segment of the path starts with '.'
HasDotSegment(src) ==
    \/ Len(src) > 0 /\ src[1] = "."
    \/ \E i \in 1..(Len(src) - 1) : src[i] = "/" /\ src[i + 1] = "."

\* some segment of the path other than the first starts with '.'
InnerDotSegment(src) ==
    \E i \in 1..(Len(src) - 1) : src[i] = "/" /\ src[i + 1] = "."

\* the loop is at a member of the zip file
AtEntry == pc = "entry" /\ idx <= Len(zfp.infolist)

\* the step passes the member on to lines 52-65
AcceptStep ==
    /\ Len(log') = Len(log) + 1
    /\ log'[Len(log')].level = "debug"

\* the rows whose FileName is f
RowsOf(f) == {i \in 1..Len(rows) : rows[i].FileName = f}

\* main has ended, by return 0 or by an exception
Ended == pc \in {"done", "crashed"}

\* C1: between two entries, every SourceMap row names a file that was
\* written in full under dstbase.
C1Claim ==
    pc # "copy" =>
        \A i \in 1..Len(rows) :
            /\ rows[i].FileName \in DOMAIN files
            /\ files[rows[i].FileName].whole

\* the summary line of unpack_repo was logged for zip file z
Unpacked(z) ==
    \E k \in 1..Len(log) : log[k].level = "info" /\ log[k].what = z

\* C2: with -R and -M given, a zip file whose commit is not in the repo map
\* gets no row and does not end the run: when main has ended, every valid
\* zip file of the argument list whose commit is in the map was unpacked.
C2Claim ==
    /\ \A i \in 1..Len(rows) : rows[i].CommitId \in DOMAIN repo
    /\ (Ended /\ optM /\ optR) =>
          \A i \in 1..Len(args) :
              (ZipFile(args[i]).valid /\ CommitOf(args[i]) \in DOMAIN repo)
                  => Unpacked(args[i])

\* C3: without -A/-J every member that is no directory, has no segment
\* starting with '.' and is not larger than maxsize is accepted; with
\* patterns a member is accepted exactly when the pattern rule says so.
C3Claim ==
    [][ (AtEntry /\ ~is_dir(info) /\ ~HasDotSegment(info.filename)
            /\ info.file_size <= maxsize)
        => (AcceptStep <=> (pats = <<>> \/ PatsOk(pats, info.filename))) ]_vars

\* C4: after main returned 0 with extraction and -M, every file under
\* dstbase has exactly one SourceMap row.
C4Claim ==
    (pc = "done" /\ extract /\ optM) =>
        \A f \in DOMAIN files : Cardinality(RowsOf(f)) = 1

\* C5: a copy that raises IOError, BadZipFile or zlib.error leaves extracted
\* as it was and the loop goes on with the next member, unless maxfiles is
\* reached; the loop ends only at the last member or at maxfiles.
C5Theorem ==
    /\ [][ (pc = "copy" /\ info.exc # "none")
           => /\ extracted' = extracted
              /\ cur' = cur
              /\ IF extracted < maxfiles
                 THEN pc' = "entry" /\ idx' = idx + 1
                 ELSE pc' = "return" ]_vars
    /\ [](pc = "return" =>
            \/ idx = Len(zfp.infolist) + 1
            \/ extract /\ extracted >= maxfiles)

\* a member was extracted after the copy of an earlier member of the same
\* zip file had failed
C5Witness ==
    /\ cur = 1
    /\ pc \in {"entry", "return"}
    /\ \E i, j \in 1..Len(zfp.infolist) :
          /\ i < j /\ j < idx
          /\ zfp.infolist[i].exc # "none"
          /\ \E k \in 1..Len(log) : /\ log[k].level = "error"
                                    /\ log[k].what = zfp.infolist[i].filename
          /\ zfp.infolist[j].exc = "none"
          /\ DstOf(zfp.infolist[j].filename) \in DOMAIN files
          /\ files[DstOf(zfp.infolist[j].filename)].whole

\* C6: a zip file that raises BadZipFile yields no file, no row and no
\* directory, and main goes on with the next zip file.
C6Theorem ==
    [][ (pc = "unpack" /\ ~zfp.valid)
        => /\ files' = files
           /\ rows' = rows
           /\ dirs' = dirs
           /\ cur' = cur + 1
           /\ pc' = IF cur < Len(args) THEN "unpack" ELSE "commit" ]_vars

\* the members of the zip file after an invalid one are being processed
C6Witness ==
    /\ cur > 1
    /\ ~ZipFile(args[cur - 1]).valid
    /\ pc = "return"
    /\ extracted > 0

C8Claim ==
    [][ (AtEntry /\ HasDotSegment(info.filename))
        => /\ ~AcceptStep
           /\ rows' = rows
           /\ pc' # "copy" ]_vars

\* C8: a member with a segment other than the first starting with '.' is
\* never accepted: no row, no copy.
C8Theorem ==
    [][ (AtEntry /\ InnerDotSegment(info.filename))
        => /\ ~AcceptStep
           /\ rows' = rows
           /\ pc' # "copy" ]_vars

\* the loop has passed a member with an inner dot segment that the patterns
\* and maxsize admit
C8Witness ==
    /\ pc = "entry"
    /\ idx > 1
    /\ idx <= Len(zfp.infolist) + 1
    /\ InnerDotSegment(zfp.infolist[idx - 1].filename)
    /\ PatsOk(pats, zfp.infolist[idx - 1].filename)
    /\ ~TooBig(maxsize, zfp.infolist[idx - 1])
    /\ optM /\ extract

\* C9: the store is committed once, after the last zip file and not
\* before, and when main has ended every inserted row is committed.
C9Claim ==
    /\ pc # "done" => commits = 0
    /\ (pc = "done" /\ optM) => commits = 1
    /\ (Ended /\ optM /\ optR) => durable = Len(rows)

\* C10 as stated: for every maxfiles >= 0, extracted and the rows of the
\* zip file never exceed maxfiles, and no member is accepted once maxfiles
\* is reached, with or without extraction.
C10Claim ==
    /\ extracted <= maxfiles
    /\ (cur = 1 /\ pc \in {"entry", "copy", "return"}) => Len(rows) <= maxfiles
    /\ pc = "copy" => extracted < maxfiles

\* C10: for every maxfiles >= 1, extracted never exceeds maxfiles, and the
\* loop is left as soon as extracted reaches maxfiles.
C10Theorem ==
    maxfiles >= 1 =>
        /\ extracted <= maxfiles
        /\ pc \in {"entry", "copy"} => extracted < maxfiles

\* the loop was left at maxfiles with accepted members still to come
C10Witness ==
    /\ pc = "return"
    /\ maxfiles >= 1
    /\ extracted = maxfiles
    /\ \E j \in (idx + 1)..Len(zfp.infolist) :
          Accepted(zfp.infolist[j], pats, maxsize)

====
